---- MODULE Spec2Model ----
(***************************************************************************)
(* The matching engine of merchant_cleaner: custom_tokenize, clean_token,  *)
(* STOP_WORDS and MerchantNameProcessor.predict, driven by the prompt loop *)
(* of the command-line shell.                                              *)
(*                                                                         *)
(* A string is a sequence of characters and a character is a one-character *)
(* TLA+ string.  FS stands for U+001C, a character str.isspace() and       *)
(* str.strip() treat as whitespace although it is outside the \s class of  *)
(* the regex module.                                                       *)
(*                                                                         *)
(* A float has FloatBits bits of mantissa and rounds to nearest, ties to    *)
(* even, after every operation, as an IEEE double does with 53 bits.  A    *)
(* weight or a sum of weights is an integer number of thousandths; a score *)
(* or a confidence is a fraction [num, den] in lowest terms.  math.log is  *)
(* a table of natural logarithms in thousandths.  The order in which a set *)
(* of strings iterates is left open by Python: every order is possible.    *)
(***************************************************************************)
EXTENDS Integers, Sequences, FiniteSets, TLC

\* ------------------------------------------------------------------ bounds
MaxTokLen == 3     \* length of the texts put to custom_tokenize alone
MaxCount == 3      \* largest count in a frequency table
MaxList == 1       \* longest list of names under one index key
FloatBits == 8     \* bits of mantissa of a float
MaxRows == 1       \* rows of a data file the offline jobs read

\* -------------------------------------------------------------- characters
FS == "<FS>"

LowerSeq ==
    << "a","b","c","d","e","f","g","h","i","j","k","l","m",
       "n","o","p","q","r","s","t","u","v","w","x","y","z" >>

UpperSeq ==
    << "A","B","C","D","E","F","G","H","I","J","K","L","M",
       "N","O","P","Q","R","S","T","U","V","W","X","Y","Z" >>

LowerSet == { LowerSeq[i] : i \in 1..26 }

UpperSet == { UpperSeq[i] : i \in 1..26 }

LetterSet == LowerSet \cup UpperSet

DigitSet == { "0","1","2","3","4","5","6","7","8","9" }

\* \w of the pattern in custom_tokenize
WordSet == LetterSet \cup DigitSet \cup { "_" }

\* \s of the patterns in custom_tokenize
RegexSpaceSet == { " ", "\t", "\n", "\r", "\f" }

\* the characters str.isspace() and str.strip() take for whitespace
PySpaceSet == RegexSpaceSet \cup { FS }

\* [a-z0-9] of clean_token
AlnumLowerSet == LowerSet \cup DigitSet

\* str.lower() on one character
Lower(c) ==
    IF c \in UpperSet
    THEN LowerSeq[CHOOSE i \in 1..26 : UpperSeq[i] = c]
    ELSE c

\* ---------------------------------------------------------------- tokenizer
RECURSIVE SubInsertSpace(_, _, _, _)
\* re.sub(r"([P])([Q])", r"\1 \2", text): leftmost non-overlapping matches
SubInsertSpace(text, i, P, Q) ==
    IF i > Len(text) THEN << >>
    ELSE IF i < Len(text) /\ text[i] \in P /\ text[i + 1] \in Q
         THEN << text[i], " ", text[i + 1] >> \o SubInsertSpace(text, i + 2, P, Q)
         ELSE << text[i] >> \o SubInsertSpace(text, i + 1, P, Q)

\* the class a character has for the split pattern ([^\w\s'-]+|\s+)
SplitClass(c) ==
    IF c \in RegexSpaceSet THEN "space"
    ELSE IF c \in WordSet \cup { "'", "-" } THEN "word"
    ELSE "punct"

RECURSIVE RunEnd(_, _)
\* last index of the run of characters of the class of text[i] that starts at i
RunEnd(text, i) ==
    IF i < Len(text) /\ SplitClass(text[i + 1]) = SplitClass(text[i])
    THEN RunEnd(text, i + 1)
    ELSE i

RECURSIVE SplitKeep(_, _, _)
\* re.split(r"([^\w\s'-]+|\s+)", text): the pieces and, between them, the
\* delimiters; cur is the piece collected so far
SplitKeep(text, i, cur) ==
    IF i > Len(text) THEN << cur >>
    ELSE IF SplitClass(text[i]) = "word"
         THEN SplitKeep(text, i + 1, Append(cur, text[i]))
         ELSE << cur, SubSeq(text, i, RunEnd(text, i)) >>
                  \o SplitKeep(text, RunEnd(text, i) + 1, << >>)

\* str.isspace()
IsSpace(t) == Len(t) > 0 /\ \A i \in 1..Len(t) : t[i] \in PySpaceSet

RECURSIVE LStrip(_)
LStrip(t) ==
    IF Len(t) > 0 /\ t[1] \in PySpaceSet THEN LStrip(Tail(t)) ELSE t

RECURSIVE RStrip(_)
RStrip(t) ==
    IF Len(t) > 0 /\ t[Len(t)] \in PySpaceSet
    THEN RStrip(SubSeq(t, 1, Len(t) - 1))
    ELSE t

\* str.strip()
Strip(t) == RStrip(LStrip(t))

\* the condition without its isspace test: t
KeepToken_NonEmpty(t) == Len(t) > 0

\* the condition of the list comprehension: t and not t.isspace()
KeepToken(t) == Len(t) > 0 /\ ~IsSpace(t)

RECURSIVE StripKept(_)
\* [t.strip() for t in tokens if t and not t.isspace()]
StripKept(tokens) ==
    IF tokens = << >> THEN << >>
    ELSE IF KeepToken(Head(tokens))
         THEN << Strip(Head(tokens)) >> \o StripKept(Tail(tokens))
         ELSE StripKept(Tail(tokens))

\* custom_tokenize had it not had its third substitution, digit to letter
custom_tokenize_NoDigitLetter(text) ==
    IF text = << >> THEN << >>
    ELSE LET t1 == SubInsertSpace(text, 1, LowerSet, UpperSet)
             t2 == SubInsertSpace(t1, 1, LetterSet, DigitSet)
         IN  StripKept(SplitKeep(t2, 1, << >>))

custom_tokenize(text) ==
    IF text = << >> THEN << >>
    ELSE LET t1 == SubInsertSpace(text, 1, LowerSet, UpperSet)
             t2 == SubInsertSpace(t1, 1, LetterSet, DigitSet)
             t3 == SubInsertSpace(t2, 1, DigitSet, LetterSet)
         IN  StripKept(SplitKeep(t3, 1, << >>))

\* --------------------------------------------------------------- normalizer
RECURSIVE clean_token_KeepUpper(_)
\* clean_token had it not lowercased: re.sub(r"[^a-zA-Z0-9]", "", token)
clean_token_KeepUpper(token) ==
    IF token = << >> THEN << >>
    ELSE IF Head(token) \in AlnumLowerSet \cup UpperSet
         THEN << Head(token) >> \o clean_token_KeepUpper(Tail(token))
         ELSE clean_token_KeepUpper(Tail(token))

RECURSIVE clean_token(_)
\* re.sub(r"[^a-z0-9]", "", token.lower())
clean_token(token) ==
    IF token = << >> THEN << >>
    ELSE IF Lower(Head(token)) \in AlnumLowerSet
         THEN << Lower(Head(token)) >> \o clean_token(Tail(token))
         ELSE clean_token(Tail(token))

STOP_WORDS == {
    <<"p","a","y","m","e","n","t">>, <<"t","x","n">>, <<"d","e","b","i","t">>,
    <<"c","r","e","d","i","t">>, <<"c","a","r","d">>, <<"p","u","r","c","h","a","s","e">>,
    <<"s","t","o","r","e">>, <<"s","h","o","p">>, <<"o","n","l","i","n","e">>, <<"b","i","l","l">>,
    <<"r","e","c","e","i","p","t">>, <<"c","h","a","r","g","e">>, <<"f","e","e">>,
    <<"t","r","a","n","s","f","e","r">>, <<"g","i","r","o">>, <<"a","t","m">>,
    <<"w","i","t","h","d","r","a","w","a","l">>, <<"s","i","n","g","a","p","o","r","e">>,
    <<"s","g">>, <<"s","u","n","t","e","c">>, <<"m","a","r","i","n","a">>,
    <<"t","a","m","p","i","n","e","s">>, <<"j","u","r","o","n","g">>, <<"p","a","y","p","a","l">>,
    <<"g","o","o","g","l","e">>, <<"a","p","p","l","e">>, <<"a","m","e","x">>, <<"d","b","s">>,
    <<"p","o","s","b">>, <<"u","o","b">>, <<"o","c","b","c">>, <<"v","i","s","a">>,
    <<"m","a","s","t","e","r","c","a","r","d">>, <<"n","e","t","s">>, <<"g","r","a","b">>,
    <<"f","a","v","e">>, <<"s","h","o","p","e","e">>, <<"l","a","z","a","d","a">>,
    <<"g","p","a","y">>, <<"p","a","y","n","o","w">>, <<"p","a","y","w","a","v","e">>,
    <<"c","o","n","t","a","c","t","l","e","s","s">>, <<"c","l">>, <<"e","a","s","t">>,
    <<"w","e","s","t">>, <<"n","o","r","t","h">>, <<"s","o","u","t","h">>,
    <<"c","e","n","t","r","a","l">>, <<"r","d">>, <<"r","o","a","d">>, <<"s","t">>,
    <<"s","t","r","e","e","t">>, <<"a","v","e">>, <<"a","v","e","n","u","e">>, <<"b","l","v","d">>,
    <<"b","o","u","l","e","v","a","r","d">>, <<"c","t","r","l">>, <<"c","r","e","s">>,
    <<"c","r","e","s","c","e","n","t">>, <<"d","r">>, <<"d","r","i","v","e">>, <<"p","l">>,
    <<"p","l","a","c","e">>, <<"l","i","n","k">>, <<"w","a","l","k">>, <<"h","w","y">>,
    <<"h","i","g","h","w","a","y">>, <<"b","l","d","g">>, <<"b","u","i","l","d","i","n","g">>,
    <<"c","t","r">>, <<"c","e","n","t","r","e">>, <<"t","o","w","e","r">>, <<"p","o","i","n","t">>,
    <<"p","l","a","z","a">>, <<"s","q","u","a","r","e">>, <<"m","a","l","l">>,
    <<"j","u","n","c","t","i","o","n">>, <<"c","o","m","p","l","e","x">>, <<"c","i","t","y">>,
    <<"t","o","w","n">>, <<"v","i","e","w">>, <<"p","a","r","k">>, <<"h","i","l","l">>,
    <<"h","d","b">>, <<"h","u","b">>, <<"b","e","d","o","k">>, <<"c","h","a","n","g","i">>,
    <<"p","a","s","i","r">>, <<"r","i","s">>, <<"p","u","n","g","g","o","l">>,
    <<"s","e","n","g","k","a","n","g">>, <<"h","o","u","g","a","n","g">>, <<"a","m","k">>,
    <<"a","n","g">>, <<"m","o">>, <<"k","i","o">>, <<"b","i","s","h","a","n">>, <<"t","o","a">>,
    <<"p","a","y","o","h">>, <<"n","o","v","e","n","a">>, <<"o","r","c","h","a","r","d">>,
    <<"n","e","w","t","o","n">>, <<"b","u","k","i","t">>, <<"t","i","m","a","h">>,
    <<"c","l","e","m","e","n","t","i">>, <<"b","o","o","n">>, <<"l","a","y">>,
    <<"y","i","s","h","u","n">>, <<"w","o","o","d","l","a","n","d","s">>, <<"c","h","o","a">>,
    <<"c","h","u">>, <<"k","a","n","g">>, <<"g","e","y","l","a","n","g">>,
    <<"k","a","l","l","a","n","g">>, <<"b","e","d","o","k"," ","m","a","l","l">>,
    <<"c","e","n","t","u","r","y"," ","s","q","u","a","r","e">>,
    <<"c","h","a","n","g","i"," ","c","i","t","y"," ","p","o","i","n","t">>,
    <<"d","o","w","n","t","o","w","n"," ","e","a","s","t">>,
    <<"e","a","s","t","p","o","i","n","t"," ","m","a","l","l">>, <<"j","e","w","e","l">>,
    <<"k","a","t","o","n","g">>, <<"i","1","2">>,
    <<"p","a","r","k","w","a","y"," ","p","a","r","a","d","e">>,
    <<"t","a","m","p","i","n","e","s"," ","1">>,
    <<"t","a","m","p","i","n","e","s"," ","m","a","l","l">>,
    <<"w","h","i","t","e"," ","s","a","n","d","s">>, <<"a","m","k"," ","h","u","b">>,
    <<"c","a","n","b","e","r","r","a"," ","p","l","a","z","a">>,
    <<"c","a","u","s","e","w","a","y"," ","p","o","i","n","t">>,
    <<"n","o","r","t","h","p","o","i","n","t"," ","c","i","t","y">>,
    <<"c","o","m","p","a","s","s"," ","o","n","e">>,
    <<"h","e","a","r","t","l","a","n","d"," ","m","a","l","l">>,
    <<"h","o","u","g","a","n","g"," ","m","a","l","l">>, <<"n","e","x">>,
    <<"j","u","n","c","t","i","o","n"," ","1","0">>, <<"w","e","s","t"," ","m","a","l","l">>,
    <<"v","i","v","o","c","i","t","y">>,
    <<"h","a","r","b","o","u","r","f","r","o","n","t"," ","c","e","n","t","r","e">>,
    <<"a","l","e","x","a","n","d","r","a"," ","r","e","t","a","i","l"," ","c","e","n","t","r","e">>,
    <<"t","h","e"," ","c","l","e","m","e","n","t","i"," ","m","a","l","l">>,
    <<"g","e","k"," ","p","o","h">>, <<"i","m","m">>, <<"j","c","u","b","e">>, <<"j","e","m">>,
    <<"j","u","r","o","n","g"," ","p","o","i","n","t">>,
    <<"p","i","o","n","e","e","r"," ","m","a","l","l">>, <<"q","u","e","e","n","s","w","a","y">>,
    <<"t","h","e"," ","r","a","i","l"," ","m","a","l","l">>,
    <<"t","h","e"," ","s","t","a","r"," ","v","i","s","t","a">>,
    <<"w","e","s","t"," ","c","o","a","s","t"," ","p","l","a","z","a">>,
    <<"w","e","s","t","g","a","t","e">>,
    <<"b","u","g","i","s"," ","j","u","n","c","t","i","o","n">>, <<"b","u","g","i","s","+">>,
    <<"c","a","p","i","t","o","l">>, <<"c","i","n","e","l","e","i","s","u","r","e">>,
    <<"t","h","e"," ","c","e","n","t","r","e","p","o","i","n","t">>,
    <<"c","i","t","y"," ","s","q","u","a","r","e"," ","m","a","l","l">>,
    <<"c","i","t","y","l","i","n","k"," ","m","a","l","l">>, <<"f","u","n","a","n">>,
    <<"g","r","e","a","t"," ","w","o","r","l","d"," ","c","i","t","y">>,
    <<"h","o","l","l","a","n","d"," ","v","i","l","l","a","g","e">>,
    <<"i","o","n"," ","o","r","c","h","a","r","d">>, <<"j","u","n","c","t","i","o","n"," ","8">>,
    <<"k","n","i","g","h","t","s","b","r","i","d","g","e">>,
    <<"l","u","c","k","y"," ","p","l","a","z","a">>,
    <<"m","a","r","i","n","a"," ","b","a","y"," ","s","a","n","d","s">>,
    <<"m","a","r","i","n","a"," ","s","q","u","a","r","e">>,
    <<"m","i","l","l","e","n","i","a"," ","w","a","l","k">>,
    <<"m","u","s","t","a","f","a"," ","c","e","n","t","r","e">>,
    <<"n","g","e","e"," ","a","n","n"," ","c","i","t","y">>,
    <<"o","r","c","h","a","r","d"," ","c","e","n","t","r","a","l">>,
    <<"o","r","c","h","a","r","d"," ","g","a","t","e","w","a","y">>,
    <<"p","a","l","a","i","s"," ","r","e","n","a","i","s","s","a","n","c","e">>,
    <<"t","h","e"," ","p","a","r","a","g","o","n">>,
    <<"p","e","o","p","l","e","s"," ","p","a","r","k">>,
    <<"p","l","a","z","a"," ","s","i","n","g","a","p","u","r","a">>,
    <<"r","a","f","f","l","e","s"," ","c","i","t","y">>,
    <<"s","h","a","w"," ","h","o","u","s","e">>,
    <<"s","i","m"," ","l","i","m"," ","s","q","u","a","r","e">>,
    <<"s","u","n","t","e","c"," ","c","i","t","y">>,
    <<"t","i","o","n","g"," ","b","a","h","r","u"," ","p","l","a","z","a">>,
    <<"t","h","o","m","s","o","n"," ","p","l","a","z","a">>,
    <<"s","e","l","e","t","a","r"," ","m","a","l","l">>,
    <<"w","a","t","e","r","w","a","y"," ","p","o","i","n","t">>,
    <<"s","e","m","b","a","w","a","n","g">>, <<"h","i","l","l","i","o","n"," ","m","a","l","l">>,
    <<"t","a","n","g","l","i","n"," ","m","a","l","l">>,
    <<"u","n","i","t","e","d"," ","s","q","u","a","r","e">>,
    <<"k","a","l","l","a","n","g"," ","w","a","v","e"," ","m","a","l","l">>,
    <<"8","8","8"," ","p","l","a","z","a">>, <<"e","l","i","a","s"," ","m","a","l","l">>,
    <<"j","o","o"," ","c","h","i","a","t"," ","c","o","m","p","l","e","x">>,
    <<"l","o","y","a","n","g"," ","p","o","i","n","t">>,
    <<"r","i","v","e","r","v","a","l","e"," ","p","l","a","z","a">>, <<"p","t","e">>,
    <<"l","t","d">>, <<"l","l","p">>, <<"l","p">>, <<"i","n","c">>, <<"l","l","c">>,
    <<"c","o","r","p">>, <<"b","h","d">>, <<"s","b","n">>, <<"t","h","e">>, <<"a","n","d">>,
    <<"o","f">>, <<"c","o">>, <<"a","u">>, <<"h","k">>, <<"u","s","a">>
    }

\* ------------------------------------------------------------------ floats
RECURSIVE Pow2(_)
Pow2(n) == IF n = 0 THEN 1 ELSE 2 * Pow2(n - 1)

\* a mantissa is below MantissaLimit; a normal one is at least MantissaMin
MantissaLimit == Pow2(FloatBits)

MantissaMin == Pow2(FloatBits - 1)

RECURSIVE GCD(_, _)
GCD(a, b) == IF b = 0 THEN a ELSE GCD(b, a % b)

\* the fraction n/d in lowest terms, n >= 0 and d > 0
Frac(n, d) ==
    LET g == GCD(n, d)
    IN  [num |-> n \div g, den |-> d \div g]

FracGT(a, b) == a.num * b.den > b.num * a.den

FracLE(a, b) == ~FracGT(a, b)

\* a / b rounded to the nearest integer, ties to the even one
RoundHalfEven(a, b) ==
    LET q == a \div b
        r == a % b
    IN  IF 2 * r > b \/ (2 * r = b /\ q % 2 = 1) THEN q + 1 ELSE q

RECURSIVE Quantum(_, _)
\* the spacing of the floats around x >= 0: the least power of two q, from q
\* on, with x < MantissaLimit * q
Quantum(x, q) == IF x < MantissaLimit * q THEN q ELSE Quantum(x, 2 * q)

\* the float nearest to the number x of thousandths
RoundFloat(x) ==
    IF x < 0
    THEN LET q == Quantum(0 - x, 1) IN 0 - q * RoundHalfEven(0 - x, q)
    ELSE IF x < MantissaLimit THEN x
    ELSE LET q == Quantum(x, 1) IN q * RoundHalfEven(x, q)

\* float addition
FAdd(a, b) == RoundFloat(a + b)

RECURSIVE DivScale(_, _, _)
\* the least power of two p, from p on, with n * p / d >= MantissaMin
DivScale(n, d, p) ==
    IF n * p >= d * MantissaMin THEN p ELSE DivScale(n, d, 2 * p)

\* float division n / d for n >= 0 and d > 0; also the float a literal n/d denotes
FDiv(n, d) ==
    IF n = 0 THEN [num |-> 0, den |-> 1]
    ELSE LET p == DivScale(n, d, 1)
         IN  Frac(RoundHalfEven(n * p, d), p)

\* the literals 0.0, 0.1, 0.33 of predict, and 1.0
Zero == FDiv(0, 1)

NoHitConfidence == FDiv(1, 10)

MatchThreshold == FDiv(33, 100)

One == FDiv(1, 1)

\* 1000 * ln(k) for k = 1..32
LnTable ==
    << 0, 693, 1099, 1386, 1609, 1792, 1946, 2079, 2198, 2302, 2398, 2485,
       2565, 2639, 2708, 2772, 2833, 2891, 2944, 2995, 3045, 3091, 3135,
       3178, 3218, 3258, 3297, 3332, 3367, 3401, 3434, 3465 >>

\* ------------------------------------------------------------ input domains
\* the texts put to predict: empty, whitespace, punctuation, stop words, one
\* word, a word twice, words in two orders, words run together
Texts ==
    { << >>, << " ", " ", " " >>, << "&" >>, << "&", FS >>, << FS, "s", "_" >>,
      << "P","A","Y","M","E","N","T"," ","S","G" >>,
      << "G","o","p","a","y","G","o","j","e","k" >>,
      << "s" >>, << "s"," ","s" >>, << "s"," ","g" >>, << "g"," ","s" >>,
      << "s"," ","g"," ","1" >>, << "1"," ","g"," ","s" >>,
      << "s","G","1" >>, << "s","-","g" >> }

\* the texts put to custom_tokenize alone: one character or more of each class
TokenizerAlphabet == { "a", "B", "1", " ", "&", "-", "_", FS }

\* the words of the docstring of custom_tokenize, and transitions in a row
TokenizerExamples ==
    { << "G","o","p","a","y","G","o","j","e","k" >>,
      << "M","E","R","C","A","R","I","4","5","6" >>,
      << "4","5","6","M","E","R","C","A","R","I" >>,
      << "a","1","a","B","1","B","a" >> }

TokenizerTexts ==
    UNION { [1..n -> TokenizerAlphabet] : n \in 0..MaxTokLen } \cup TokenizerExamples

\* the tokens the artifacts are keyed by, and the names the index lists
TokenPool == { << "s" >>, << "g" >> }

NamePool == { << "s", "G", "1" >>, << "s", "G" >> }

\* the entity names the data files hold: a stop word and a legal suffix after
\* a leading space, one-character tokens and punctuation, and a name of the
\* same core tokens in another order
EntityNamePool ==
    { << " ","s","g"," ","P","t","e" >>,
      << "s","G","1"," ","a","b","&","s","g" >>,
      << "a","b"," ","s","G","1" >> }

\* str(name).strip() of the entity names
StrippedNames == { Strip(n) : n \in EntityNamePool }

\* the texts asked of an engine whose index the builder wrote
BuiltTexts ==
    { << "a","b" >>,
      << "A","B"," ","s","g" >>,
      << "P","t","e"," ","s","g" >>,
      << "1"," ","s" >>,
      << "a","b"," ","1" >> }

\* every string predict tokenizes
ScoredTexts == Texts \cup NamePool \cup BuiltTexts \cup StrippedNames

IndexLists == UNION { [1..n -> NamePool] : n \in 0..MaxList }

Indexes == UNION { [K -> IndexLists] : K \in SUBSET TokenPool }

FreqTables == UNION { [K -> 0..MaxCount] : K \in SUBSET TokenPool }

RECURSIVE Orders(_)
\* the orders in which a set can iterate
Orders(S) ==
    IF S = {} THEN { << >> }
    ELSE UNION { { << x >> \o q : q \in Orders(S \ { x }) } : x \in S }

\* -------------------------------------------------------------------- state
VARIABLES
    match_index,          \* self.match_index: token -> list of names
    token_frequencies,    \* self.token_frequencies: token -> count
    total_token_count,    \* self.total_token_count
    pc,                   \* "prompt", "scoring", "answered" or "crashed";
                          \* "tokenizer", "tokenized" where custom_tokenize runs alone
    raw_transaction_text, \* the argument of the predict call under way
    tokens,               \* custom_tokenize(raw_transaction_text)
    core_input_tokens,
    input_weight,         \* the sum over core_input_tokens, in the order the set iterates
    looked_up,            \* the tokens passed to self.match_index.get
    candidate_names,
    pending,              \* the candidates the for loop has not visited yet
    scores,               \* candidate -> the score the loop computed for it
    weights,              \* candidate -> << intersection_weight, candidate_weight >>
    best_match,
    highest_score,
    result,               \* what predict returned, NoResult before it returns
    error,                \* the exception raised, "none" otherwise
    index_file,           \* model/match_index.pkl
    freqs_file,           \* model/token_frequencies.pkl
    acra_file,            \* data/acra_entities.csv: its column entity_name
    other_file,           \* data/other_uen_entities.csv: its column entity_name
    training_file         \* data/synthetic_training_data.csv: its rows

vars ==
    << match_index, token_frequencies, total_token_count, pc,
       raw_transaction_text, tokens, core_input_tokens, input_weight,
       looked_up, candidate_names, pending, scores, weights,
       best_match, highest_score, result, error,
       index_file, freqs_file, acra_file, other_file, training_file >>

engine == << match_index, token_frequencies, total_token_count >>

files == << index_file, freqs_file, acra_file, other_file, training_file >>

\* a file that is not there, one that does not unpickle, one that holds data
Missing == [state |-> "missing", data |-> << >>]

Corrupt == [state |-> "corrupt", data |-> << >>]

Stored(data) == [state |-> "stored", data |-> data]

NoResult == [name |-> << >>, confidence |-> Zero, returned |-> FALSE]

Returned(name, confidence) ==
    [name |-> name, confidence |-> confidence, returned |-> TRUE]

NoScores == [c \in {} |-> Zero]

\* ------------------------------------------------------------------- engine
RECURSIVE SumValues(_, _)
\* sum(self.token_frequencies.values())
SumValues(f, K) ==
    IF K = {} THEN 0
    ELSE LET k == CHOOSE x \in K : TRUE
         IN  f[k] + SumValues(f, K \ { k })

\* {clean_token(t) for t in custom_tokenize(text) if clean_token(t)}
CleanTokens(text) ==
    LET ts == custom_tokenize(text)
    IN  { clean_token(ts[i]) : i \in 1..Len(ts) } \ { << >> }

\* the core tokens had STOP_WORDS not been taken out
CoreTokens_NoStop(text) == CleanTokens(text)

\* {t for t in all_tokens if t not in STOP_WORDS}
CoreTokens(text) == CleanTokens(text) \ STOP_WORDS

\* custom_tokenize and CoreTokens, tabulated over the strings predict meets
TokenizeTable == [text \in ScoredTexts |-> custom_tokenize(text)]

CoreTable == [text \in ScoredTexts |-> CoreTokens(text)]

\* self.match_index.get(token, [])
IndexGet(index, token) ==
    IF token \in DOMAIN index THEN index[token] ELSE << >>

\* the pool had it been taken from every key of the index
CandidateNames_AllKeys(index, core) ==
    UNION { { index[t][i] : i \in 1..Len(index[t]) } : t \in DOMAIN index }

\* the index had the lookup of an absent token put the token in, as
\* self.match_index.setdefault(token, []) does
IndexAfterGet_Insert(index, token) ==
    [t \in DOMAIN index \cup { token } |-> IndexGet(index, t)]

\* the index after self.match_index.get(token, []): get puts no key in
IndexAfterGet(index, token) == index

RECURSIVE IndexAfterLookups(_, _)
\* the index after the lookups of the comprehension of candidate_names
IndexAfterLookups(index, core) ==
    IF core = {} THEN index
    ELSE LET t == CHOOSE x \in core : TRUE
         IN  IndexAfterLookups(IndexAfterGet(index, t), core \ { t })

\* {name for token in core_input_tokens for name in self.match_index.get(token, [])}
CandidateNames(index, core) ==
    UNION { { IndexGet(index, t)[i] : i \in 1..Len(IndexGet(index, t)) } : t \in core }

\* self.token_frequencies.get(token, 1)
Frequency(token) ==
    IF token \in DOMAIN token_frequencies THEN token_frequencies[token] ELSE 1

\* the divisor of total_token_count in _get_token_weight
Divisor(token) == Frequency(token)

\* the exception _get_token_weight raises for the token, "none" if it returns
WeightError(token) ==
    IF Divisor(token) = 0 THEN "ZeroDivisionError"
    ELSE IF total_token_count = 0 THEN "ValueError"
    ELSE "none"

\* math.log(self.total_token_count / frequency), where it returns
get_token_weight(token) ==
    RoundFloat(LnTable[total_token_count] - LnTable[Divisor(token)])

RECURSIVE SumWeights(_, _)
\* sum(self._get_token_weight(t) for t in S), S iterating in the given order
SumWeights(order, acc) ==
    IF order = << >> THEN acc
    ELSE SumWeights(Tail(order), FAdd(acc, get_token_weight(Head(order))))

\* the tokens of S for which _get_token_weight raises
Failing(S) == { t \in S : WeightError(t) # "none" }

\* the values sum(self._get_token_weight(t) for t in S) can take, one for
\* each order in which S can iterate
PossibleSums(S) ==
    IF Failing(S) # {} THEN { 0 }
    ELSE { SumWeights(q, 0) : q \in Orders(S) }

\* the exceptions the three sums of one loop iteration can raise: the first
\* sum that meets a failing token raises that token's exception
IterationErrors(core, cand) ==
    IF Failing(core \cap cand) # {}
    THEN { WeightError(t) : t \in Failing(core \cap cand) }
    ELSE IF Failing(core) # {}
    THEN { WeightError(t) : t \in Failing(core) }
    ELSE { WeightError(t) : t \in Failing(cand) }

\* denominator = input_weight + candidate_weight
Denominator(in_weight, candidate_weight) == FAdd(in_weight, candidate_weight)

\* score = (2 * intersection_weight) / denominator
Score(intersection_weight, denominator) == FDiv(2 * intersection_weight, denominator)

\* the comparison had it been score >= highest_score
Better_OrEqual(score, highest) == ~FracGT(highest, score)

\* if score > highest_score
Better(score, highest) == FracGT(score, highest)

\* the return without the threshold: the best candidate, whatever its score
Decide_AlwaysBest(raw, best, highest) == Returned(best, highest)

\* the final if had it also let a highest score of 0.0 through
Decide_ZeroPasses(raw, best, highest) ==
    IF FracGT(highest, MatchThreshold) \/ highest = Zero
    THEN Returned(best, highest)
    ELSE Returned(raw, highest)

\* the final if of predict
Decide(raw, best, highest) ==
    IF FracGT(highest, MatchThreshold)
    THEN Returned(best, highest)
    ELSE Returned(raw, highest)

\* ------------------------------------------------------------------ actions
Init ==
    /\ match_index \in Indexes
    /\ token_frequencies \in FreqTables
    /\ total_token_count = SumValues(token_frequencies, DOMAIN token_frequencies)
    /\ pc = "prompt"
    /\ raw_transaction_text = << >>
    /\ tokens = << >>
    /\ core_input_tokens = {}
    /\ input_weight = 0
    /\ looked_up = {}
    /\ candidate_names = {}
    /\ pending = {}
    /\ scores = NoScores
    /\ weights = NoScores
    /\ best_match = << >>
    /\ highest_score = Zero
    /\ result = NoResult
    /\ error = "none"
    /\ index_file = Stored(match_index)
    /\ freqs_file = Stored(token_frequencies)
    /\ acra_file = Missing
    /\ other_file = Missing
    /\ training_file = Missing

\* predict, from its call to the first of: a return before the loop, the loop.
\* The order in which core_input_tokens iterates is fixed once the set is
\* built, and with it the sum the loop takes over the set.
PredictBegin(text, in_weight) ==
    LET core == CoreTable[text]
        pool == CandidateNames(match_index, core)
    IN  /\ pc = "prompt"
        /\ in_weight \in PossibleSums(core)
        /\ raw_transaction_text' = text
        /\ tokens' = TokenizeTable[text]
        /\ core_input_tokens' = core
        /\ scores' = NoScores
        /\ weights' = NoScores
        /\ best_match' = << >>
        /\ highest_score' = Zero
        /\ error' = "none"
        /\ IF core = {}
           THEN /\ looked_up' = {}
                /\ candidate_names' = {}
                /\ pending' = {}
                /\ input_weight' = 0
                /\ result' = Returned(text, Zero)
                /\ pc' = "answered"
           ELSE /\ looked_up' = core
                /\ candidate_names' = pool
                /\ IF pool = {}
                   THEN /\ pending' = {}
                        /\ input_weight' = 0
                        /\ result' = Returned(text, NoHitConfidence)
                        /\ pc' = "answered"
                   ELSE /\ pending' = pool
                        /\ input_weight' = in_weight
                        /\ result' = NoResult
                        /\ pc' = "scoring"
        /\ match_index' = IndexAfterLookups(match_index, core)
        /\ UNCHANGED << token_frequencies, total_token_count, files >>

\* one iteration of the for loop, over any candidate not visited yet; the
\* sums over the intersection and over the candidate's tokens take one of
\* the values the iteration orders of the two sets allow
PredictIterate(candidate, intersection_weight, candidate_weight) ==
    LET core_candidate_tokens == CoreTable[candidate]
        intersection == core_input_tokens \cap core_candidate_tokens
        raised == IterationErrors(core_input_tokens, core_candidate_tokens)
        denominator == Denominator(input_weight, candidate_weight)
        score == Score(intersection_weight, denominator)
    IN  /\ pc = "scoring"
        /\ candidate \in pending
        /\ intersection_weight \in PossibleSums(intersection)
        /\ candidate_weight \in PossibleSums(core_candidate_tokens)
        /\ pending' = pending \ { candidate }
        /\ IF core_candidate_tokens = {}
           THEN UNCHANGED << pc, scores, weights, best_match, highest_score, error >>
           ELSE IF raised # {}
           THEN /\ error' \in raised
                /\ pc' = "crashed"
                /\ UNCHANGED << scores, weights, best_match, highest_score >>
           ELSE IF denominator = 0
           THEN UNCHANGED << pc, scores, weights, best_match, highest_score, error >>
           ELSE /\ scores' = [c \in DOMAIN scores \cup { candidate } |->
                                IF c = candidate THEN score ELSE scores[c]]
                /\ weights' = [c \in DOMAIN weights \cup { candidate } |->
                                 IF c = candidate
                                 THEN << intersection_weight, candidate_weight >>
                                 ELSE weights[c]]
                /\ IF Better(score, highest_score)
                   THEN /\ best_match' = candidate
                        /\ highest_score' = score
                   ELSE UNCHANGED << best_match, highest_score >>
                /\ UNCHANGED << pc, error >>
        /\ UNCHANGED << engine, files, raw_transaction_text, tokens, core_input_tokens,
                        input_weight, looked_up, candidate_names, result >>

\* the loop is over: the threshold decides what predict returns
PredictReturn ==
    /\ pc = "scoring"
    /\ pending = {}
    /\ result' = Decide(raw_transaction_text, best_match, highest_score)
    /\ pc' = "answered"
    /\ UNCHANGED << engine, files, raw_transaction_text, tokens, core_input_tokens,
                    input_weight, looked_up, candidate_names, pending, scores,
                    weights, best_match, highest_score, error >>

\* the shell prints the answer and prompts again
NextPrompt ==
    /\ pc = "answered"
    /\ pc' = "prompt"
    /\ raw_transaction_text' = << >>
    /\ tokens' = << >>
    /\ core_input_tokens' = {}
    /\ input_weight' = 0
    /\ looked_up' = {}
    /\ candidate_names' = {}
    /\ pending' = {}
    /\ scores' = NoScores
    /\ weights' = NoScores
    /\ best_match' = << >>
    /\ highest_score' = Zero
    /\ result' = NoResult
    /\ error' = "none"
    /\ UNCHANGED << engine, files >>

Next ==
    \/ /\ pc = "prompt"
       /\ \E text \in Texts : \E in_weight \in PossibleSums(CoreTable[text]) :
              PredictBegin(text, in_weight)
    \/ \E candidate \in pending :
           \E intersection_weight \in PossibleSums(core_input_tokens \cap CoreTable[candidate]) :
               \E candidate_weight \in PossibleSums(CoreTable[candidate]) :
                   PredictIterate(candidate, intersection_weight, candidate_weight)
    \/ PredictReturn
    \/ NextPrompt

Spec == Init /\ [][Next]_vars

\* ------------------------------------------------------ engine construction
\* joblib.load had a missing file been answered by going on without it
LoadOutcome_GoOn(file) ==
    IF file.state = "corrupt" THEN "UnpicklingError" ELSE "none"

\* the exception joblib.load raises for the file, "none" if it returns
LoadOutcome(file) ==
    IF file.state = "missing" THEN "FileNotFoundError"
    ELSE IF file.state = "corrupt" THEN "UnpicklingError"
    ELSE "none"

\* where __init__ ends on the exception: sys.exit(1) in the except clause of
\* FileNotFoundError, the exception leaving run() otherwise
AfterLoadError(exception) ==
    IF exception = "FileNotFoundError" THEN "exited" ELSE "failed"

\* run() has been called and nothing is loaded yet
InitStartup ==
    /\ index_file \in { Missing, Corrupt } \cup { Stored(i) : i \in Indexes }
    /\ freqs_file \in { Missing, Corrupt } \cup { Stored(f) : f \in FreqTables }
    /\ acra_file = Missing
    /\ other_file = Missing
    /\ training_file = Missing
    /\ match_index = << >>
    /\ token_frequencies = << >>
    /\ total_token_count = 0
    /\ pc = "start"
    /\ raw_transaction_text = << >>
    /\ tokens = << >>
    /\ core_input_tokens = {}
    /\ input_weight = 0
    /\ looked_up = {}
    /\ candidate_names = {}
    /\ pending = {}
    /\ scores = NoScores
    /\ weights = NoScores
    /\ best_match = << >>
    /\ highest_score = Zero
    /\ result = NoResult
    /\ error = "none"

\* self.match_index = joblib.load(MATCH_INDEX_PATH)
LoadIndex ==
    LET exception == LoadOutcome(index_file)
    IN  /\ pc = "start"
        /\ IF exception = "none"
           THEN /\ match_index' = index_file.data
                /\ pc' = "index_loaded"
                /\ UNCHANGED error
           ELSE /\ error' = exception
                /\ pc' = AfterLoadError(exception)
                /\ UNCHANGED match_index
        /\ UNCHANGED << token_frequencies, total_token_count, files,
                        raw_transaction_text, tokens, core_input_tokens,
                        input_weight, looked_up, candidate_names, pending,
                        scores, weights, best_match, highest_score, result >>

\* self.token_frequencies = joblib.load(TOKEN_FREQS_PATH), the sum of its
\* values, and the return of __init__ to run(), which goes to its prompt
LoadFrequencies ==
    LET exception == LoadOutcome(freqs_file)
    IN  /\ pc = "index_loaded"
        /\ IF exception = "none"
           THEN /\ token_frequencies' = freqs_file.data
                /\ total_token_count' =
                       SumValues(freqs_file.data, DOMAIN freqs_file.data)
                /\ pc' = "prompt"
                /\ UNCHANGED error
           ELSE /\ error' = exception
                /\ pc' = AfterLoadError(exception)
                /\ UNCHANGED << token_frequencies, total_token_count >>
        /\ UNCHANGED << match_index, files, raw_transaction_text, tokens,
                        core_input_tokens, input_weight, looked_up,
                        candidate_names, pending, scores, weights, best_match,
                        highest_score, result >>

NextStartup ==
    \/ LoadIndex
    \/ LoadFrequencies
    \/ Next

SpecStartup == InitStartup /\ [][NextStartup]_vars

\* -------------------------------------------------------- the offline jobs
\* INDEX_EXCLUSION_LIST of build_match_index.py
INDEX_EXCLUSION_LIST ==
    { <<"p","t","e">>, <<"l","t","d">>, <<"l","l","p">>, <<"l","p">>,
      <<"i","n","c">>, <<"l","l","c">>, <<"c","o","r","p">>, <<"b","h","d">>,
      <<"s","b","n">>, <<"t","h","e">>, <<"a","n","d">>, <<"o","f">>,
      <<"c","o">> }

\* LEGAL_SUFFIXES of train_xgboost_cleaner.py
LEGAL_SUFFIXES ==
    { <<"p","t","e">>, <<"l","t","d">>, <<"l","l","p">>, <<"l","p">>,
      <<"i","n","c">>, <<"l","l","c">>, <<"c","o","r","p">>, <<"b","h","d">>,
      <<"s","b","n">> }

\* the rows of the training data: raw_transaction and clean_merchant
RawPool == { << "A","&","b" >>, << "a","b"," ","a","b" >> }

CleanPool == { << "a","b" >>, << "P","t","e" >> }

TrainingRowPool ==
    { [raw_transaction |-> << "A","&","b" >>, clean_merchant |-> << "a","b" >>],
      [raw_transaction |-> << "a","b"," ","a","b" >>,
       clean_merchant |-> << "P","t","e" >>] }

NameLists == UNION { [1..n -> EntityNamePool] : n \in 0..MaxRows }

RowLists == UNION { [1..n -> TrainingRowPool] : n \in 0..MaxRows }

SeqRange(q) == { q[i] : i \in 1..Len(q) }

\* collections.Counter(q)
Counter(q) ==
    [t \in SeqRange(q) |-> Cardinality({ i \in 1..Len(q) : q[i] = t })]

\* str.lower()
LowerString(t) == [i \in 1..Len(t) |-> Lower(t[i])]

RECURSIVE RawTokens(_)
\* [t for text in df["raw_transaction"] for t in custom_tokenize(text)]
RawTokens(rows) ==
    IF rows = << >> THEN << >>
    ELSE custom_tokenize(Head(rows).raw_transaction) \o RawTokens(Tail(rows))

RECURSIVE CleanedTokens(_)
\* all_tokens_filtered of create_token_frequencies.main, from the raw tokens
CleanedTokens(ts) ==
    IF ts = << >> THEN << >>
    ELSE IF clean_token(Head(ts)) # << >>
         THEN << clean_token(Head(ts)) >> \o CleanedTokens(Tail(ts))
         ELSE CleanedTokens(Tail(ts))

\* token_frequencies of create_token_frequencies.main
CreatedFrequencies(rows) == Counter(CleanedTokens(RawTokens(rows)))

\* token_frequencies of train_xgboost_cleaner.main: Counter of t.lower()
TrainedFrequencies(rows) ==
    LET ts == RawTokens(rows)
    IN  Counter([i \in 1..Len(ts) |-> LowerString(ts[i])])

\* clean_tokens_set of train_xgboost_cleaner.main for one row
CleanTokensSet(row) ==
    LET ts == custom_tokenize(row.clean_merchant)
    IN  { LowerString(ts[i]) :
            i \in { k \in 1..Len(ts) :
                      ~(LowerString(ts[k]) \in LEGAL_SUFFIXES
                            /\ k - 1 >= Len(ts) - 2) } }

\* the loop of train_xgboost_cleaner.main appends features for some row
FeaturesGenerated(rows) ==
    \E i \in 1..Len(rows) :
        /\ custom_tokenize(rows[i].raw_transaction) # << >>
        /\ CleanTokensSet(rows[i]) # {}

\* the names of the entity files that pd.read_csv loads, one after the other
AllNames ==
    (IF acra_file.state = "stored" THEN acra_file.data ELSE << >>)
        \o (IF other_file.state = "stored" THEN other_file.data ELSE << >>)

\* unique_names of build_match_index.main
UniqueNames == { Strip(n) : n \in SeqRange(AllNames) }

\* core_tokens of build_match_index.main had it kept the short tokens
BuilderCoreTokens_KeepShort(name) ==
    LET ts == custom_tokenize(name)
    IN  { clean_token(ts[i]) : i \in 1..Len(ts) } \ INDEX_EXCLUSION_LIST

\* core_tokens of build_match_index.main for one name
BuilderCoreTokens(name) ==
    { t \in CleanTokens(name) : t \notin INDEX_EXCLUSION_LIST /\ Len(t) > 1 }

\* the index had every name been appended under every token
BuiltIndex_EveryName(order) ==
    [t \in UNION { BuilderCoreTokens(order[i]) : i \in 1..Len(order) } |-> order]

\* inverted_index[token].append(name) for every token of core_tokens
AppendName(index, name, core_tokens) ==
    [t \in DOMAIN index \cup core_tokens |->
        IF t \in core_tokens THEN Append(IndexGet(index, t), name) ELSE index[t]]

RECURSIVE IndexLoop(_, _)
\* the loop over unique_names, from the index built so far
IndexLoop(inverted_index, order) ==
    IF order = << >> THEN inverted_index
    ELSE LET name == Head(order)
             core_tokens == BuilderCoreTokens(name)
         IN  IndexLoop(AppendName(inverted_index, name, core_tokens), Tail(order))

\* dict(inverted_index) when unique_names iterates in the given order
BuiltIndex(order) == IndexLoop(<< >>, order)

\* the data files are there or not; no job has run
InitJobs ==
    /\ acra_file \in { Missing } \cup { Stored(q) : q \in NameLists }
    /\ other_file \in { Missing } \cup { Stored(q) : q \in NameLists }
    /\ training_file \in { Missing } \cup { Stored(q) : q \in RowLists }
    /\ index_file = Missing
    /\ freqs_file = Missing
    /\ match_index = << >>
    /\ token_frequencies = << >>
    /\ total_token_count = 0
    /\ pc = "offline"
    /\ raw_transaction_text = << >>
    /\ tokens = << >>
    /\ core_input_tokens = {}
    /\ input_weight = 0
    /\ looked_up = {}
    /\ candidate_names = {}
    /\ pending = {}
    /\ scores = NoScores
    /\ weights = NoScores
    /\ best_match = << >>
    /\ highest_score = Zero
    /\ result = NoResult
    /\ error = "none"

\* build_match_index.main; unique_names iterates in the given order
BuildMatchIndex(order) ==
    /\ pc = "offline"
    /\ order \in Orders(UniqueNames)
    /\ IF acra_file.state # "stored" /\ other_file.state # "stored"
       THEN UNCHANGED index_file
       ELSE index_file' = Stored(BuiltIndex(order))
    /\ UNCHANGED << engine, pc, raw_transaction_text, tokens,
                    core_input_tokens, input_weight, looked_up,
                    candidate_names, pending, scores, weights, best_match,
                    highest_score, result, error, freqs_file, acra_file,
                    other_file, training_file >>

\* create_token_frequencies.main
CreateTokenFrequencies ==
    /\ pc = "offline"
    /\ IF training_file.state # "stored"
       THEN UNCHANGED freqs_file
       ELSE freqs_file' = Stored(CreatedFrequencies(training_file.data))
    /\ UNCHANGED << engine, pc, raw_transaction_text, tokens,
                    core_input_tokens, input_weight, looked_up,
                    candidate_names, pending, scores, weights, best_match,
                    highest_score, result, error, index_file, acra_file,
                    other_file, training_file >>

\* train_xgboost_cleaner.main; fitted tells whether vectorizing and
\* xgb.fit return or raise
TrainXgboostCleaner(fitted) ==
    /\ pc = "offline"
    /\ IF /\ training_file.state = "stored"
          /\ FeaturesGenerated(training_file.data)
          /\ fitted
       THEN freqs_file' = Stored(TrainedFrequencies(training_file.data))
       ELSE UNCHANGED freqs_file
    /\ UNCHANGED << engine, pc, raw_transaction_text, tokens,
                    core_input_tokens, input_weight, looked_up,
                    candidate_names, pending, scores, weights, best_match,
                    highest_score, result, error, index_file, acra_file,
                    other_file, training_file >>

NextJobs ==
    \/ \E order \in Orders(UniqueNames) : BuildMatchIndex(order)
    \/ CreateTokenFrequencies
    \/ \E fitted \in BOOLEAN : TrainXgboostCleaner(fitted)

SpecJobs == InitJobs /\ [][NextJobs]_vars

\* ------------------------------- the engine on the artifacts the jobs wrote
\* an entity file of one name, or none
OneNameFiles == { Missing } \cup { Stored(<< n >>) : n \in EntityNamePool }

\* a training file of one row
OneRowFiles == { Stored(<< r >>) : r \in TrainingRowPool }

\* the frequency files the two jobs can leave for the training file
WrittenFrequencies(rows) ==
    { Stored(CreatedFrequencies(rows)) }
        \cup (IF FeaturesGenerated(rows)
              THEN { Stored(TrainedFrequencies(rows)) }
              ELSE {})

\* the jobs have written both artifacts from the data files and the engine
\* has loaded them
InitBuilt ==
    /\ acra_file \in OneNameFiles
    /\ other_file \in OneNameFiles
    /\ acra_file.state = "stored" \/ other_file.state = "stored"
    /\ training_file \in OneRowFiles
    /\ \E order \in Orders(UniqueNames) : index_file = Stored(BuiltIndex(order))
    /\ freqs_file \in WrittenFrequencies(training_file.data)
    /\ match_index = index_file.data
    /\ token_frequencies = freqs_file.data
    /\ total_token_count = SumValues(token_frequencies, DOMAIN token_frequencies)
    /\ pc = "prompt"
    /\ raw_transaction_text = << >>
    /\ tokens = << >>
    /\ core_input_tokens = {}
    /\ input_weight = 0
    /\ looked_up = {}
    /\ candidate_names = {}
    /\ pending = {}
    /\ scores = NoScores
    /\ weights = NoScores
    /\ best_match = << >>
    /\ highest_score = Zero
    /\ result = NoResult
    /\ error = "none"

NextBuilt ==
    \/ /\ pc = "prompt"
       /\ \E text \in BuiltTexts : \E in_weight \in PossibleSums(CoreTable[text]) :
              PredictBegin(text, in_weight)
    \/ \E candidate \in pending :
           \E intersection_weight \in PossibleSums(core_input_tokens \cap CoreTable[candidate]) :
               \E candidate_weight \in PossibleSums(CoreTable[candidate]) :
                   PredictIterate(candidate, intersection_weight, candidate_weight)
    \/ PredictReturn
    \/ NextPrompt

SpecBuilt == InitBuilt /\ [][NextBuilt]_vars

\* ------------------------------------------------- the tokenizer on its own
InitTokenize ==
    /\ match_index = << >>
    /\ token_frequencies = << >>
    /\ total_token_count = 0
    /\ pc = "tokenizer"
    /\ raw_transaction_text = << >>
    /\ tokens = << >>
    /\ core_input_tokens = {}
    /\ input_weight = 0
    /\ looked_up = {}
    /\ candidate_names = {}
    /\ pending = {}
    /\ scores = NoScores
    /\ weights = NoScores
    /\ best_match = << >>
    /\ highest_score = Zero
    /\ result = NoResult
    /\ error = "none"
    /\ index_file = Missing
    /\ freqs_file = Missing
    /\ acra_file = Missing
    /\ other_file = Missing
    /\ training_file = Missing

\* a call custom_tokenize(text), to its return
Tokenize(text) ==
    /\ pc = "tokenizer"
    /\ pc' = "tokenized"
    /\ raw_transaction_text' = text
    /\ tokens' = custom_tokenize(text)
    /\ UNCHANGED << engine, files, core_input_tokens, input_weight, looked_up,
                    candidate_names, pending, scores, weights, best_match,
                    highest_score, result, error >>

\* the caller goes on to its next text
TokenizeNext ==
    /\ pc = "tokenized"
    /\ pc' = "tokenizer"
    /\ raw_transaction_text' = << >>
    /\ tokens' = << >>
    /\ UNCHANGED << engine, files, core_input_tokens, input_weight, looked_up,
                    candidate_names, pending, scores, weights, best_match,
                    highest_score, result, error >>

NextTokenize ==
    \/ \E text \in TokenizerTexts : Tokenize(text)
    \/ TokenizeNext

SpecTokenize == InitTokenize /\ [][NextTokenize]_vars

\* ------------------------------------------------- clean_token on its own
InitClean ==
    /\ match_index = << >>
    /\ token_frequencies = << >>
    /\ total_token_count = 0
    /\ pc = "cleaner"
    /\ raw_transaction_text = << >>
    /\ tokens = << >>
    /\ core_input_tokens = {}
    /\ input_weight = 0
    /\ looked_up = {}
    /\ candidate_names = {}
    /\ pending = {}
    /\ scores = NoScores
    /\ weights = NoScores
    /\ best_match = << >>
    /\ highest_score = Zero
    /\ result = NoResult
    /\ error = "none"
    /\ index_file = Missing
    /\ freqs_file = Missing
    /\ acra_file = Missing
    /\ other_file = Missing
    /\ training_file = Missing

\* a call clean_token(token), to its return; tokens holds what it returned
Clean(token) ==
    /\ pc = "cleaner"
    /\ pc' = "cleaned"
    /\ raw_transaction_text' = token
    /\ tokens' = << clean_token(token) >>
    /\ UNCHANGED << engine, files, core_input_tokens, input_weight, looked_up,
                    candidate_names, pending, scores, weights, best_match,
                    highest_score, result, error >>

\* a call of clean_token on what the call before returned
CleanAgain ==
    /\ pc = "cleaned"
    /\ pc' = "recleaned"
    /\ tokens' = Append(tokens, clean_token(tokens[1]))
    /\ UNCHANGED << engine, files, raw_transaction_text, core_input_tokens,
                    input_weight, looked_up, candidate_names, pending, scores,
                    weights, best_match, highest_score, result, error >>

\* the caller goes on to its next token
CleanNext ==
    /\ pc = "recleaned"
    /\ pc' = "cleaner"
    /\ raw_transaction_text' = << >>
    /\ tokens' = << >>
    /\ UNCHANGED << engine, files, core_input_tokens, input_weight, looked_up,
                    candidate_names, pending, scores, weights, best_match,
                    highest_score, result, error >>

NextClean ==
    \/ \E token \in TokenizerTexts : Clean(token)
    \/ CleanAgain
    \/ CleanNext

SpecClean == InitClean /\ [][NextClean]_vars

\* ---------------------------------------------------------------- properties
Answered == pc = "answered"

\* predict went through its loop before it answered
AnsweredAfterLoop == pc = "answered" /\ candidate_names # {}

Range(f) == { f[x] : x \in DOMAIN f }

\* the greatest of the scores the loop computed, 0.0 when it computed none
MaxScore ==
    CHOOSE m \in Range(scores) \cup { Zero } :
        \A x \in Range(scores) \cup { Zero } : FracLE(x, m)

\* a token no frequency table holds
UnseenToken == << "1" >>

\* C1: predict never raises, whatever the text, the index and the frequency
\* table (an empty table and a zero count included), and when it returns the
\* raw text the confidence is 0.0, 0.1 or a computed score of at most 0.33.
C1_PredictNeverRaises ==
    /\ pc # "crashed"
    /\ (Answered /\ result.name = raw_transaction_text)
           => \/ result.confidence \in { Zero, NoHitConfidence }
              \/ FracLE(result.confidence, MatchThreshold)

\* C2: after the loop predict returns the best candidate with the greatest
\* score when that score is above 0.33, and the raw text with the greatest
\* score otherwise.
C2_ThresholdDecides ==
    AnsweredAfterLoop =>
        IF FracGT(MaxScore, MatchThreshold)
        THEN /\ result.confidence = MaxScore
             /\ result.name \in DOMAIN scores
             /\ scores[result.name] = MaxScore
        ELSE result = Returned(raw_transaction_text, MaxScore)

\* a score above zero and not above the threshold came back with the raw text
C2_Witness ==
    /\ AnsweredAfterLoop
    /\ FracGT(MaxScore, Zero)
    /\ FracLE(MaxScore, MatchThreshold)
    /\ result = Returned(raw_transaction_text, MaxScore)

\* a candidate was substituted for a raw text that differs from it
C2_WitnessSubstituted ==
    /\ AnsweredAfterLoop
    /\ FracGT(result.confidence, MatchThreshold)
    /\ result.name # raw_transaction_text

\* every character of the text is whitespace or punctuation
OnlySpaceOrPunct(text) ==
    \A i \in 1..Len(text) : SplitClass(text[i]) # "word"

PaymentSG == << "P","A","Y","M","E","N","T"," ","S","G" >>

\* C3: a text without core tokens (empty, whitespace, punctuation, stop
\* words such as "PAYMENT SG") is answered by the text itself with 0.0, and
\* the index is not consulted.
C3_NoCoreTokens ==
    Answered =>
        /\ CoreTokens(raw_transaction_text) = {}
               => /\ result = Returned(raw_transaction_text, Zero)
                  /\ looked_up = {}
        /\ OnlySpaceOrPunct(raw_transaction_text)
               => result = Returned(raw_transaction_text, Zero)
        /\ raw_transaction_text = PaymentSG
               => result = Returned(raw_transaction_text, Zero)

C3_Witness ==
    /\ Answered
    /\ raw_transaction_text = PaymentSG
    /\ result = Returned(PaymentSG, Zero)
    /\ match_index # << >>

\* no core token of the text has a name listed in the index
NoIndexHit ==
    \A t \in CoreTokens(raw_transaction_text) :
        t \notin DOMAIN match_index \/ match_index[t] = << >>

\* C4: a text with core tokens none of which has a name listed in the index
\* is answered by the text itself with 0.1.
C4_NoIndexHit ==
    (Answered /\ CoreTokens(raw_transaction_text) # {} /\ NoIndexHit)
        => result = Returned(raw_transaction_text, NoHitConfidence)

C4_Witness ==
    /\ Answered
    /\ result = Returned(raw_transaction_text, NoHitConfidence)
    /\ \E t \in core_input_tokens : t \notin DOMAIN match_index
    /\ \E t \in DOMAIN match_index : match_index[t] # << >>

\* C5: the confidence tells the failure apart: 0.0 only when the text has no
\* core tokens, 0.1 only when the pool of candidates is empty.
C5_ConfidenceTellsFailure ==
    Answered =>
        /\ result.confidence = Zero => core_input_tokens = {}
        /\ result.confidence = NoHitConfidence => candidate_names = {}

\* C6: for every token, in the frequency table or not, the divisor of
\* _get_token_weight is at least 1 and total_token_count / divisor is at
\* least 1, so the weight is defined, finite and not negative.
C6_WeightDefined ==
    \A t \in TokenPool \cup { UnseenToken } :
        /\ Divisor(t) >= 1
        /\ total_token_count >= Divisor(t)
        /\ WeightError(t) = "none"

\* C7: every score the loop computes lies in [0, 1], and so does every
\* confidence predict returns.
C7_ScoreInUnitInterval ==
    /\ \A c \in DOMAIN scores :
           FracLE(Zero, scores[c]) /\ FracLE(scores[c], One)
    /\ Answered =>
           FracLE(Zero, result.confidence) /\ FracLE(result.confidence, One)

\* the candidates that have the greatest score
Maximizers == { c \in DOMAIN scores : scores[c] = MaxScore }

FracMax(a, b) == IF FracGT(a, b) THEN a ELSE b

RECURSIVE HighestWith(_, _)
\* highest_score after the loop over the candidates, had the sum over the
\* core input tokens been in_weight and the other sums what they were
HighestWith(cands, in_weight) ==
    IF cands = {} THEN Zero
    ELSE LET c == CHOOSE x \in cands : TRUE
             d == Denominator(in_weight, weights[c][2])
         IN  FracMax(IF d = 0 THEN Zero ELSE Score(weights[c][1], d),
                     HighestWith(cands \ { c }, in_weight))

\* C8: two calls with the same text, index and frequency table return the
\* same confidence: it is the greatest score, in whatever order the loop
\* visits the pool and in whatever order the token sets iterate; and when a
\* single candidate has the greatest score, the name is fixed too.
C8_SameCallSameAnswer ==
    AnsweredAfterLoop =>
        /\ result.confidence = MaxScore
        /\ \A c \in Maximizers :
               Maximizers = { c } =>
                   result.name = IF FracGT(MaxScore, MatchThreshold)
                                 THEN c
                                 ELSE raw_transaction_text
        /\ \A w \in PossibleSums(core_input_tokens) :
               HighestWith(DOMAIN weights, w) = result.confidence

RECURSIVE WordsFrom(_, _, _)
\* the set of the words of the text from index i on, words being separated
\* by spaces; cur is the word collected so far
WordsFrom(text, i, cur) ==
    IF i > Len(text) THEN { cur } \ { << >> }
    ELSE IF text[i] = " "
         THEN ({ cur } \ { << >> }) \cup WordsFrom(text, i + 1, << >>)
         ELSE WordsFrom(text, i + 1, Append(cur, text[i]))

WordsOf(text) == WordsFrom(text, 1, << >>)

\* the confidences predict can return for a text of the same core tokens,
\* one for each order in which the set of its core tokens can iterate
ConfidencesFor(text) ==
    IF CoreTable[text] = {} THEN { Zero }
    ELSE IF CandidateNames(match_index, CoreTable[text]) = {}
    THEN { NoHitConfidence }
    ELSE { HighestWith(DOMAIN weights, w) : w \in PossibleSums(CoreTable[text]) }

\* C9: a text that has the same words as the raw text, repeated or in
\* another order, has the same core tokens and gets the same confidence.
C9_WordOrderIrrelevant ==
    Answered =>
        \A other \in Texts \ { raw_transaction_text } :
            WordsOf(other) = WordsOf(raw_transaction_text) =>
                /\ CoreTable[other] = core_input_tokens
                /\ ConfidencesFor(other) = { result.confidence }

\* C10: custom_tokenize returns for every text; the empty text gives the
\* empty list; no token is empty or whitespace, none begins or ends with
\* whitespace.
C10_TokenizeTotal ==
    pc = "tokenized" =>
        /\ raw_transaction_text = << >> => tokens = << >>
        /\ \A i \in 1..Len(tokens) :
               /\ tokens[i] # << >>
               /\ ~IsSpace(tokens[i])
               /\ tokens[i][1] \notin PySpaceSet
               /\ tokens[i][Len(tokens[i])] \notin PySpaceSet

\* a text of whitespace and punctuation gave the one token "&"
C10_Witness ==
    /\ pc = "tokenized"
    /\ raw_transaction_text = << " ", "&", FS >>
    /\ tokens = << << "&" >> >>

RECURSIVE Flatten(_)
\* the tokens one after the other
Flatten(ts) == IF ts = << >> THEN << >> ELSE Head(ts) \o Flatten(Tail(ts))

RECURSIVE Unspaced(_)
\* the text without its whitespace characters
Unspaced(t) ==
    IF t = << >> THEN << >>
    ELSE IF Head(t) \in PySpaceSet THEN Unspaced(Tail(t))
         ELSE << Head(t) >> \o Unspaced(Tail(t))

\* a lowercase letter before an uppercase one, a letter before a digit or a
\* digit before a letter
Transition(c, d) ==
    \/ c \in LowerSet /\ d \in UpperSet
    \/ c \in LetterSet /\ d \in DigitSet
    \/ c \in DigitSet /\ d \in LetterSet

Gopay == << "G","o","p","a","y" >>

Gojek == << "G","o","j","e","k" >>

Mercari == << "M","E","R","C","A","R","I" >>

\* C11: custom_tokenize puts a boundary at every transition from lowercase
\* to uppercase, from letter to digit and from digit to letter: no token
\* holds such a transition, and the tokens are the pieces of the text from
\* left to right; "GopayGojek", "MERCARI456", "456MERCARI" split as stated.
C11_TransitionsSplit ==
    pc = "tokenized" =>
        /\ \A k \in 1..Len(tokens) : \A i \in 1..(Len(tokens[k]) - 1) :
               ~Transition(tokens[k][i], tokens[k][i + 1])
        /\ Unspaced(Flatten(tokens)) = Unspaced(raw_transaction_text)
        /\ raw_transaction_text = Gopay \o Gojek => tokens = << Gopay, Gojek >>
        /\ raw_transaction_text = Mercari \o << "4","5","6" >>
               => tokens = << Mercari, << "4","5","6" >> >>
        /\ raw_transaction_text = << "4","5","6" >> \o Mercari
               => tokens = << << "4","5","6" >>, Mercari >>

\* a digit between two letters is a token of its own
C11_Witness ==
    /\ pc = "tokenized"
    /\ raw_transaction_text = << "a", "1", "B" >>
    /\ tokens = << << "a" >>, << "1" >>, << "B" >> >>

\* C12: clean_token returns only characters of [a-z0-9], and applied to what
\* it returned it returns the same; it can return the empty string, which
\* the comprehension of predict keeps out of the set of input tokens.
C12_CleanIdempotent ==
    /\ pc \in { "cleaned", "recleaned" } =>
           /\ \A i \in 1..Len(tokens[1]) : tokens[1][i] \in AlnumLowerSet
           /\ << >> \notin CleanTokens(raw_transaction_text)
    /\ pc = "recleaned" => tokens[2] = tokens[1]

\* an uppercase letter, punctuation and a digit gave "b1", twice
C12_Witness ==
    /\ pc = "recleaned"
    /\ raw_transaction_text = << "B", "&", "1" >>
    /\ tokens = << << "b", "1" >>, << "b", "1" >> >>

\* a token of punctuation alone gave the empty string
C12_WitnessEmpty ==
    /\ pc = "recleaned"
    /\ raw_transaction_text = << "&", "-" >>
    /\ tokens = << << >>, << >> >>
    /\ CleanTokens(raw_transaction_text) = {}

\* the process is at its prompt or in a predict call, or has served one
Serving == pc \in { "prompt", "scoring", "answered" } \/ result.returned

\* __init__ ended on an exception
StartupFailed == pc \in { "exited", "failed" }

\* C13: when the index file or the frequency file does not load, __init__
\* does not complete and the process serves no predict call, then or later:
\* it is at its prompt or in predict only with both artifacts loaded from
\* their files, and once construction has failed it stays failed.
C13_NoServiceWithoutArtifacts ==
    /\ [](Serving =>
             /\ index_file.state = "stored"
             /\ freqs_file.state = "stored"
             /\ match_index = index_file.data
             /\ token_frequencies = freqs_file.data)
    /\ [](StartupFailed => ~Serving)
    /\ [][StartupFailed => (pc' = pc /\ ~Serving')]_vars

\* the index was loaded, the frequency file was missing, the process exited
C13_Witness ==
    /\ pc = "exited"
    /\ error = "FileNotFoundError"
    /\ index_file.state = "stored"
    /\ match_index = index_file.data
    /\ match_index # << >>
    /\ freqs_file = Missing

Normalized(t) == t # << >> /\ \A i \in 1..Len(t) : t[i] \in AlnumLowerSet

\* C15: whatever offline jobs have run, the frequency file maps normalized
\* tokens, non-empty and over [a-z0-9], to positive counts.
C15_FrequencyKeysNormalized ==
    freqs_file.state = "stored" =>
        \A t \in DOMAIN freqs_file.data :
            Normalized(t) /\ freqs_file.data[t] >= 1

\* the normalized forms of the tokens of a name
NormalForms(name) ==
    LET ts == custom_tokenize(name)
    IN  { clean_token(ts[i]) : i \in 1..Len(ts) }

\* the index file lists the name under the token
Listed(name, t) ==
    /\ t \in DOMAIN index_file.data
    /\ name \in SeqRange(index_file.data[t])

\* C16: the index the builder writes lists a name under token t exactly when
\* t is the normalized form of one of the name's tokens, has length >= 2 and
\* is not in INDEX_EXCLUSION_LIST; no key is empty, of length 1 or excluded,
\* and no name is twice in one list.
C16_IndexExactlyBuilt ==
    index_file.state = "stored" =>
        /\ \A name \in UniqueNames :
               \A t \in DOMAIN index_file.data \cup NormalForms(name) :
                   Listed(name, t) <=>
                       /\ t \in NormalForms(name)
                       /\ Len(t) >= 2
                       /\ t \notin INDEX_EXCLUSION_LIST
        /\ \A t \in DOMAIN index_file.data :
               /\ Len(t) >= 2
               /\ t \notin INDEX_EXCLUSION_LIST
               /\ SeqRange(index_file.data[t]) \subseteq UniqueNames
               /\ index_file.data[t] # << >>
               /\ \A i, j \in 1..Len(index_file.data[t]) :
                      index_file.data[t][i] = index_file.data[t][j] => i = j

\* the builder has indexed two names that share the token "sg", one of them
\* read with a leading space, the other with one-character tokens and "&"
C16_Witness ==
    /\ index_file.state = "stored"
    /\ acra_file = Stored(<< << " ","s","g"," ","P","t","e" >> >>)
    /\ other_file = Stored(<< << "s","G","1"," ","a","b","&","s","g" >> >>)
    /\ DOMAIN index_file.data = { << "s","g" >>, << "a","b" >> }
    /\ Len(index_file.data[<< "s","g" >>]) = 2
    /\ << "s","g"," ","P","t","e" >> \in SeqRange(index_file.data[<< "s","g" >>])

\* the candidate the step visits ties with the tracked best
TiedWithBest(c) ==
    /\ c \in DOMAIN scores'
    /\ c \notin DOMAIN scores
    /\ best_match \in DOMAIN scores
    /\ scores'[c] = highest_score

\* C17: in the loop the tracked best is replaced only by the candidate just
\* visited and only when its score is strictly greater than the highest so
\* far; the highest score never decreases; a candidate that ties with the
\* tracked best leaves it in place, so the first of the candidates of
\* maximum score is the one predict tracks and returns.
C17_StrictGreaterKeepsFirst ==
    /\ [][pc = "scoring" =>
            /\ FracLE(highest_score, highest_score')
            /\ (best_match' # best_match \/ highest_score' # highest_score) =>
                   /\ best_match' \in pending \ pending'
                   /\ best_match' \in DOMAIN scores'
                   /\ scores'[best_match'] = highest_score'
                   /\ FracGT(highest_score', highest_score)
            /\ \A c \in pending : TiedWithBest(c) => best_match' = best_match]_vars
    /\ [](pc \in { "scoring", "answered" } /\ FracGT(MaxScore, Zero) =>
            /\ best_match \in Maximizers
            /\ highest_score = MaxScore)
    /\ [](AnsweredAfterLoop /\ FracGT(highest_score, MatchThreshold) =>
            result.name = best_match)

\* two candidates share the maximum score and predict returned one of them
C17_Witness ==
    /\ AnsweredAfterLoop
    /\ Cardinality(Maximizers) = 2
    /\ FracGT(MaxScore, MatchThreshold)
    /\ result.name \in Maximizers

\* the loop visited candidates and computed no score: each was skipped
AllSkipped == AnsweredAfterLoop /\ DOMAIN scores = {}

\* C18: the name predict returns is the raw input or a pooled candidate whose
\* own score is the confidence returned; the placeholder "" is not returned
\* in place of the input, also when every candidate was skipped.
C18_ReturnsRawOrScoredCandidate ==
    /\ Answered =>
           \/ result.name = raw_transaction_text
           \/ /\ result.name \in candidate_names
              /\ result.name \in DOMAIN scores
              /\ scores[result.name] = result.confidence
              /\ result.name # << >>
    /\ AllSkipped => result = Returned(raw_transaction_text, Zero)

\* every candidate of a non-empty input was skipped and the input came back
C18_Witness ==
    /\ AllSkipped
    /\ raw_transaction_text # << >>
    /\ best_match = << >>
    /\ result.name = raw_transaction_text

\* the tokens of the input under which the index lists the candidate
FoundUnder(c) ==
    { t \in core_input_tokens :
        t \in DOMAIN match_index /\ c \in SeqRange(match_index[t]) }

\* C19: with an index the builder wrote, every candidate predict pools was
\* found under a token that is not a stop word and is one of the candidate's
\* own core tokens: the intersection with the input is non-empty and no
\* candidate of the pool has an empty core token set.
C19_PooledCandidatesShareToken ==
    pc \in { "scoring", "answered", "crashed" } =>
        \A c \in candidate_names :
            /\ FoundUnder(c) # {}
            /\ FoundUnder(c) \cap STOP_WORDS = {}
            /\ FoundUnder(c) \subseteq CoreTable[c]
            /\ core_input_tokens \cap CoreTable[c] # {}
            /\ CoreTable[c] # {}

\* the index has the stop word "sg" among its keys, the input holds "sg"
\* too, and predict pooled the two names listed under "ab" only
C19_Witness ==
    /\ pc = "scoring"
    /\ raw_transaction_text = << "A","B"," ","s","g" >>
    /\ Cardinality(candidate_names) = 2
    /\ << "s","g" >> \in DOMAIN match_index
    /\ << "s","g" >> \in SeqRange(tokens)
    /\ << "s","g" >> \notin core_input_tokens

====
